---------------------------- MODULE Spec2Model ----------------------------
(***************************************************************************)
(* Model of ScanStrategy (src/python/instrument.py): mission partitioning, *)
(* rotation sub-chunking, boresight scan, per-detector scan with HWP       *)
(* modulation, and binning into the global maps.                           *)
(*                                                                         *)
(* Numbers.  Sample indices and counts are exact integers.  fsamp, the     *)
(* rotation period, the HWP frequency and the mission duration are drawn   *)
(* from positive integers, so period*fsamp and int(fsamp/freq) are exact.  *)
(* Rotation angles are counted in units of 45 degrees (8 to a turn).       *)
(* HWP angles are counted in units of 22.5/(freq*fsamp) degrees, so that   *)
(* both the 22.5-degree steps of the stepped mode and the per-sample       *)
(* increment 360/(freq*fsamp) degrees of the continuous mode are integers. *)
(***************************************************************************)
EXTENDS Integers, Sequences, FiniteSets, Bags, TLC

(* ------------------------------ bounds -------------------------------- *)
MaxDuration == 4      \* mission duration in seconds: 1..MaxDuration
MaxFsamp == 2         \* sample rate in Hz: 1..MaxFsamp
MaxChunk == 7         \* chunksize argument of partition_mission: 1..MaxChunk
MaxPeriod == 2        \* rotation period in seconds: 0 (unset)..MaxPeriod
MaxFreq == 2          \* HWP frequency in Hz: 0 (unset)..MaxFreq
MaxDet == 2           \* detectors on the focal plane: 1..MaxDet
MaxStartAng == 1      \* start_ang arguments, in angle steps: 0..MaxStartAng

(* ------------------------- program constants -------------------------- *)
RotNAngles == 8       \* np.arange(start_ang, 360+start_ang, 45)
HwpNAngles == 16      \* np.arange(start_ang, 360+start_ang, 22.5)

VARIABLES
    pc,          \* position in the driver script / in scan_instrument
    fsamp,       \* self.fsamp
    nsamp,       \* self.nsamp
    ndet,        \* self.ndet
    rot_dict,    \* self.rot_dict: period, angle, remainder
    rot_gen,     \* self.rot_angle_gen: angles, pos
    hwp_dict,    \* self.hwp_dict: mode, freq, angle, remainder
    hwp_gen,     \* self.hwp_angle_gen: angles, pos
    chunks,      \* self.chunks
    maps,        \* self.vec / self.proj, self.depo and the count of resets
    run,         \* scan_instrument's arguments and loop position
    q_bore,      \* self.q_bore: the azimuth of every boresight sample
    last,        \* what the last scan call left on self
    scans        \* history: one record per scan call of this mission

vars == <<pc, fsamp, nsamp, ndet, rot_dict, rot_gen, hwp_dict, hwp_gen,
          chunks, maps, run, q_bore, last, scans>>

(* ------------------------------ helpers ------------------------------- *)
\* int(np.ceil(a / float(b))) for integers a >= 0, b > 0
CeilDiv(a, b) == (a + b - 1) \div b

ChunkLen(c) == c.end - c.start + 1

(* ------------------------- tools.angle_gen ---------------------------- *)
\* A cyclic generator over a fixed list of angles: next() returns the entry
\* under the cursor and advances the cursor modulo the list's length.
AngleGen(angles) == [angles |-> angles, pos |-> 1]

GenValue(gen) == gen.angles[gen.pos]

GenNext(gen) == [gen EXCEPT !.pos = (gen.pos % Len(gen.angles)) + 1]

\* np.mod(np.arange(start_ang, 360+start_ang, step), 360) in units of step
DefaultAngles(start_ang, n) == [i \in 1..n |-> (start_ang + i - 1) % n]

(* ------------------------- partition_mission -------------------------- *)
\* variant: the end of the final chunk is not clamped to nsamp - 1
PartitionMissionNoClamp(n, chunksize) ==
    LET cs == IF chunksize >= n THEN n ELSE chunksize
        nchunks == CeilDiv(n, cs)
    IN  [i \in 1..nchunks |->
            LET start == (i - 1) * cs
                end == start + cs - 1
            IN  [start |-> start, end |-> end]]

PartitionMission(n, chunksize) ==
    LET cs == IF chunksize >= n THEN n ELSE chunksize
        nchunks == CeilDiv(n, cs)
    IN  [i \in 1..nchunks |->
            LET start == (i - 1) * cs
                end == start + cs - 1
            IN  [start |-> start,
                 end |-> IF end >= n - 1 THEN n - 1 ELSE end]]

(* --------------------------- subpart_chunk ---------------------------- *)
\* the for loop of lines 476-487; rem is self.rot_dict['remainder']
RECURSIVE SubpartLoop(_, _, _, _, _, _, _)
SubpartLoop(chunk, rot_chunk_size, nchunks, sidx, start, rem, subchunks) ==
    IF sidx >= nchunks
    THEN [subchunks |-> subchunks, remainder |-> rem]
    ELSE LET end0 == IF sidx = 0 /\ rem # 0
                     THEN start + rem
                     ELSE start + rot_chunk_size - 1
             over == end0 > chunk.end
             rem1 == IF over THEN end0 - chunk.end + 1 ELSE rem
             end == IF over THEN chunk.end ELSE end0
         IN  SubpartLoop(chunk, rot_chunk_size, nchunks, sidx + 1,
                         start + rot_chunk_size, rem1,
                         Append(subchunks, [start |-> start, end |-> end]))

\* variant: no test of the rotation piece against the chunk length
SubpartChunkNoLengthCheck(chunk, rot, fs) ==
    LET period == rot.period
        rot_chunk_size == period * fs
        chunksize == chunk.end - chunk.start + 1
        nchunks == CeilDiv(chunksize, rot_chunk_size)
    IN  IF period = 0
        THEN [subchunks |-> <<chunk>>, remainder |-> rot.remainder]
        ELSE SubpartLoop(chunk, rot_chunk_size, nchunks, 0, chunk.start,
                         rot.remainder, << >>)

\* returns the sub-chunks and the value left in rot_dict['remainder']
SubpartChunk(chunk, rot, fs) ==
    LET period == rot.period
        rot_chunk_size == period * fs
        chunksize == chunk.end - chunk.start + 1
        nchunks == CeilDiv(chunksize, rot_chunk_size)
    IN  IF period = 0
        THEN [subchunks |-> <<chunk>>, remainder |-> rot.remainder]
        ELSE IF rot_chunk_size > chunksize
        THEN [subchunks |-> <<chunk>>, remainder |-> rot.remainder]
        ELSE SubpartLoop(chunk, rot_chunk_size, nchunks, 0, chunk.start,
                         rot.remainder, << >>)

(* ------------------------- constant_el_scan --------------------------- *)
\* az_throw/pi * arcsin(sin(2 pi k / scan_period / fsamp)) for sample k, in
\* units of 1/fsamp degree: a triangle wave of period T = 2*az_throw*fsamp
\* in the variable t = k*scan_speed, with amplitude az_throw*fsamp/2.
TriangleAz(k, az_throw, scan_speed, fs) ==
    LET T == 2 * az_throw * fs
        m == (k * scan_speed) % T
    IN  IF 4 * m <= T THEN m
        ELSE IF 4 * m <= 3 * T THEN (az_throw * fs) - m
        ELSE m - T

\* returns the error raised, if any, and az - az0 for every sample of the
\* chunk (az0 is what radec2azel returns for the chunk's first sample)
ConstantElScan(az_throw, scan_speed, chunk, fs) ==
    LET chunk_len == chunk.end - chunk.start + 1
    IN  IF scan_speed = 0
        THEN \* 2 * az_throw / float(scan_speed)
             [error |-> "ZeroDivisionError", az |-> << >>]
        ELSE IF 2 * az_throw = 0
        THEN \* scan_period == 0.
             [error |-> "", az |-> [k \in 1..chunk_len |-> 0]]
        ELSE [error |-> "",
              az |-> [k \in 1..chunk_len |->
                        TriangleAz(k - 1, az_throw, scan_speed, fs)]]

(* ------------------------------- scan --------------------------------- *)
\* HWP angle units per 22.5-degree step (see the note on numbers above)
HwpScale(freq, fs) == IF freq = 0 THEN 1 ELSE freq * fs

\* 360 degrees (2 pi) in HWP angle units
HwpTurn(freq, fs) == HwpNAngles * HwpScale(freq, fs)

\* hwp_ang[a:b] += v  (Python slice, 0-based, clamped to the array)
SliceAdd(hwp_ang, a, b, v) ==
    [i \in 1..Len(hwp_ang) |->
        IF a + 1 <= i /\ i <= b THEN hwp_ang[i] + v ELSE hwp_ang[i]]

\* variant: the stored start angle is the angle one increment after the
\* final sample
HwpContinuousNextStart(hwp, gen, tod_size, fs) ==
    LET start_ang == hwp.angle
        hwp_ang == [i \in 1..tod_size |-> start_ang + (i - 1) * HwpNAngles]
    IN  [error |-> "",
         hwp |-> [hwp EXCEPT !.angle = (hwp_ang[tod_size] + HwpNAngles)
                                           % HwpTurn(hwp.freq, fs)],
         gen |-> gen,
         hwp_ang |-> hwp_ang]

\* lines 710-716: np.linspace(start_ang, start_ang + 2 pi tod_size /
\* (freq fsamp), num=tod_size, endpoint=False); the increment per sample,
\* 2 pi / (freq fsamp), is HwpNAngles units
HwpContinuous(hwp, gen, tod_size, fs) ==
    LET start_ang == hwp.angle
        hwp_ang == [i \in 1..tod_size |-> start_ang + (i - 1) * HwpNAngles]
    IN  [error |-> "",
         hwp |-> [hwp EXCEPT !.angle = hwp_ang[tod_size]
                                           % HwpTurn(hwp.freq, fs)],
         gen |-> gen,
         hwp_ang |-> hwp_ang]

\* the for loop of lines 726-747; rem is self.hwp_dict['remainder']
RECURSIVE HwpSteppedLoop(_, _, _, _, _, _, _, _, _)
HwpSteppedLoop(sidx, nsteps, step_size, scale, start_ang, startidx, hwp_ang, rem, gen) ==
    LET tod_size == Len(hwp_ang)
    IN  IF sidx > nsteps
        THEN [hwp_ang |-> hwp_ang, remainder |-> rem, gen |-> gen]
        ELSE IF sidx = 0 /\ rem # 0
        THEN HwpSteppedLoop(sidx + 1, nsteps, step_size, scale, start_ang,
                            rem, SliceAdd(hwp_ang, 0, rem, start_ang),
                            rem, gen)
        ELSE IF startidx + step_size > tod_size
        THEN LET endidx == tod_size - 1
             IN  \* break
                 [hwp_ang |-> SliceAdd(hwp_ang, startidx, endidx,
                                       GenValue(gen) * scale),
                  remainder |-> startidx + step_size - endidx,
                  gen |-> GenNext(gen)]
        ELSE LET endidx == startidx + step_size
             IN  HwpSteppedLoop(sidx + 1, nsteps, step_size, scale,
                                start_ang, startidx + step_size,
                                SliceAdd(hwp_ang, startidx, endidx,
                                         GenValue(gen) * scale),
                                rem, GenNext(gen))

\* lines 718-751
HwpStepped(hwp, gen, tod_size, fs) ==
    LET step_size == fs \div hwp.freq
        nsteps == CeilDiv(tod_size, step_size)
        r == HwpSteppedLoop(0, nsteps, step_size, HwpScale(hwp.freq, fs),
                            hwp.angle, 0, [i \in 1..tod_size |-> 0],
                            hwp.remainder, gen)
    IN  IF step_size = 0
        THEN \* tod_size / float(step_size)
             [error |-> "ZeroDivisionError", hwp |-> hwp, gen |-> gen,
              hwp_ang |-> << >>]
        ELSE [error |-> "",
              hwp |-> [hwp EXCEPT
                         !.angle = r.hwp_ang[tod_size] % HwpTurn(hwp.freq, fs),
                         !.remainder = r.remainder],
              gen |-> r.gen,
              hwp_ang |-> r.hwp_ang]

\* lines 702-754: the HWP angle array of one scan call and the HWP state
\* the call leaves behind
HwpAngles(hwp, gen, tod_size, fs) ==
    IF hwp.freq # 0
    THEN IF hwp.mode = "continuous" THEN HwpContinuous(hwp, gen, tod_size, fs)
         ELSE IF hwp.mode = "stepped" THEN HwpStepped(hwp, gen, tod_size, fs)
         ELSE \* hwp_ang is never bound: line 757 raises
              [error |-> "UnboundLocalError", hwp |-> hwp, gen |-> gen,
               hwp_ang |-> << >>]
    ELSE [error |-> "", hwp |-> hwp, gen |-> gen,
          hwp_ang |-> [i \in 1..tod_size |-> 0]]

\* variant: every chunk is indexed as if it were the last one
QIdxLastChunkOnly(chks, q_len, start, end) ==
    LET nrml_len == chks[1].end - chks[1].start + 1
    IN  [qidx_start |-> start - (Len(chks) - 1) * nrml_len,
         qidx_end |-> end - (Len(chks) - 1) * nrml_len]

\* lines 665-681: the slice of q_bore a scan call selects
QIdx(chks, q_len, start, end) ==
    LET nrml_len == chks[1].end - chks[1].start + 1
    IN  IF q_len = nrml_len
        THEN [qidx_start |-> start % nrml_len,
              qidx_end |-> (start % nrml_len) + end - start]
        ELSE [qidx_start |-> start - (Len(chks) - 1) * nrml_len,
              qidx_end |-> end - (Len(chks) - 1) * nrml_len]

\* lines 617-771: one scan call for the sub-chunk [start, end]; the beam
\* convolution itself (ra, dec, pa, func, func_c) is left to the external
\* collaborators and the TOD is named by the call that made it
Scan(rot, hwp, gen, chks, q_len, fs, start, end) ==
    LET tod_size == IF end + 1 > start THEN end + 1 - start ELSE 0
        q == QIdx(chks, q_len, start, end)
        h == HwpAngles(hwp, gen, tod_size, fs)
    IN  [error |-> IF tod_size = 0 /\ hwp.freq # 0 /\ hwp.mode # "none"
                   THEN "IndexError" ELSE h.error,
         rot_angle |-> rot.angle,
         tod_size |-> tod_size,
         qidx_start |-> q.qidx_start,
         qidx_end |-> q.qidx_end,
         hwp |-> IF tod_size = 0 THEN hwp ELSE h.hwp,
         gen |-> IF tod_size = 0 THEN gen ELSE h.gen,
         hwp_ang |-> IF tod_size = 0 THEN << >> ELSE h.hwp_ang]

(* ------------------------------ bin_tod ------------------------------- *)
\* variant: the destination buffers are never reset
BinTodNoReset(m, tod, init) ==
    [m EXCEPT !.depo = m.depo (+) SetToBag({tod})]

\* lines 885-912: init_dest(reset=True) zeroes self.depo when init is set,
\* then from_tod adds the binned TOD to self.depo; vec and proj are filled
\* alike, so one bag of binned TODs stands for both
BinTod(m, tod, init) ==
    LET dest == IF init THEN EmptyBag ELSE m.depo
    IN  [m EXCEPT !.depo = dest (+) SetToBag({tod}),
                  !.resets = IF init THEN m.resets + 1 ELSE m.resets]

(* ---------------------------- the machine ----------------------------- *)
ScanSpeeds == {0, 1}
AzThrows == {0, 1}
HwpModes == {"none", "continuous", "stepped"}

NoRun == [mapmaking |-> FALSE, az_throw |-> 0, scan_speed |-> 0, cidx |-> 0,
          subchunks |-> << >>, sidx |-> 0, chnidx |-> 0, error |-> ""]

NoScan == [tod |-> << >>, hwp_ang |-> << >>, qidx_start |-> 0, qidx_end |-> 0]

\* ScanStrategy.__init__ (lines 232-273)
Init ==
    /\ pc = "focal"
    /\ fsamp \in 1..MaxFsamp
    /\ \E duration \in 1..MaxDuration : nsamp = duration * fsamp
    /\ ndet = 0
    /\ rot_dict = [period |-> 0, angle |-> 0, remainder |-> 0]
    /\ rot_gen = AngleGen(DefaultAngles(0, RotNAngles))
    /\ hwp_dict = [mode |-> "none", freq |-> 0, angle |-> 0, remainder |-> 0]
    /\ hwp_gen = AngleGen(DefaultAngles(0, HwpNAngles))
    /\ chunks = << >>
    /\ maps = [alloc |-> FALSE, vec |-> EmptyBag, depo |-> EmptyBag,
               resets |-> 0]
    /\ run = NoRun
    /\ q_bore = << >>
    /\ last = NoScan
    /\ scans = << >>

\* set_focal_plane (lines 52-85)
SetFocalPlane ==
    /\ pc = "focal"
    /\ \E nrow \in 1..MaxDet :
          /\ ndet' = nrow * 1
          /\ pc' = "rot"
    /\ UNCHANGED <<fsamp, nsamp, rot_dict, rot_gen, hwp_dict, hwp_gen,
                   chunks, maps, run, q_bore, last, scans>>

\* set_instr_rot (lines 338-367), angles left None
SetInstrRot ==
    /\ pc = "rot"
    /\ \E period \in 0..MaxPeriod, start_ang \in 0..MaxStartAng :
          /\ rot_dict' = [period |-> period, angle |-> start_ang,
                          remainder |-> 0]
          /\ rot_gen' = AngleGen(DefaultAngles(start_ang, RotNAngles))
    /\ pc' = "hwp"
    /\ UNCHANGED <<fsamp, nsamp, ndet, hwp_dict, hwp_gen, chunks, maps, run,
                   q_bore, last, scans>>

\* set_hwp_mod (lines 369-402), angles left None
SetHwpMod ==
    /\ pc = "hwp"
    /\ \E mode \in HwpModes, freq \in 0..MaxFreq,
          start_ang \in 0..MaxStartAng :
          /\ hwp_dict' = [mode |-> mode, freq |-> freq,
                          angle |-> start_ang * HwpScale(freq, fsamp),
                          remainder |-> 0]
          /\ hwp_gen' = AngleGen(DefaultAngles(start_ang, HwpNAngles))
    /\ pc' = "partition"
    /\ UNCHANGED <<fsamp, nsamp, ndet, rot_dict, rot_gen, chunks, maps, run,
                   q_bore, last, scans>>

\* partition_mission (lines 404-435)
DoPartitionMission ==
    /\ pc = "partition"
    /\ \E chunksize \in 1..MaxChunk :
          chunks' = PartitionMission(nsamp, chunksize)
    /\ pc' = "alloc"
    /\ UNCHANGED <<fsamp, nsamp, ndet, rot_dict, rot_gen, hwp_dict, hwp_gen,
                   maps, run, q_bore, last, scans>>

\* allocate_maps (lines 491-497)
AllocateMaps ==
    /\ pc = "alloc"
    /\ maps' = [maps EXCEPT !.alloc = TRUE, !.vec = EmptyBag]
    /\ pc' = "ready"
    /\ UNCHANGED <<fsamp, nsamp, ndet, rot_dict, rot_gen, hwp_dict, hwp_gen,
                   chunks, run, q_bore, last, scans>>

\* scan_instrument is entered (lines 499-521)
ScanInstrument ==
    /\ pc = "ready"
    /\ \E mapmaking \in BOOLEAN, az_throw \in AzThrows,
          scan_speed \in ScanSpeeds :
          run' = [NoRun EXCEPT !.mapmaking = mapmaking,
                               !.az_throw = az_throw,
                               !.scan_speed = scan_speed, !.cidx = 1]
    /\ pc' = "chunk"
    /\ UNCHANGED <<fsamp, nsamp, ndet, rot_dict, rot_gen, hwp_dict, hwp_gen,
                   chunks, maps, q_bore, last, scans>>

\* the head of the chunk loop (lines 521-533): constant_el_scan, then
\* subpart_chunk
NextChunk ==
    /\ pc = "chunk"
    /\ LET chunk == chunks[run.cidx]
           ces == ConstantElScan(run.az_throw, run.scan_speed, chunk, fsamp)
           sub == SubpartChunk(chunk, rot_dict, fsamp)
       IN  IF ces.error # ""
           THEN /\ pc' = "error"
                /\ run' = [run EXCEPT !.error = ces.error]
                /\ UNCHANGED <<q_bore, rot_dict>>
           ELSE /\ pc' = "subchunk"
                /\ q_bore' = ces.az
                /\ rot_dict' = [rot_dict EXCEPT !.remainder = sub.remainder]
                /\ run' = [run EXCEPT !.subchunks = sub.subchunks,
                                      !.sidx = 1]
    /\ UNCHANGED <<fsamp, nsamp, ndet, rot_gen, hwp_dict, hwp_gen, chunks,
                   maps, last, scans>>

\* variant: the instrument rotates at the first sub-chunk of a chunk only
NextSubchunkRotatePerChunk ==
    /\ pc = "subchunk"
    /\ IF rot_dict.period # 0 /\ run.sidx = 1
       THEN /\ rot_dict' = [rot_dict EXCEPT !.angle = GenValue(rot_gen)]
            /\ rot_gen' = GenNext(rot_gen)
       ELSE UNCHANGED <<rot_dict, rot_gen>>
    /\ run' = [run EXCEPT !.chnidx = 0]
    /\ pc' = "det"
    /\ UNCHANGED <<fsamp, nsamp, ndet, hwp_dict, hwp_gen, chunks, maps,
                   q_bore, last, scans>>

\* the head of the sub-chunk loop (lines 533-537): rotate the instrument
NextSubchunk ==
    /\ pc = "subchunk"
    /\ IF rot_dict.period # 0
       THEN /\ rot_dict' = [rot_dict EXCEPT !.angle = GenValue(rot_gen)]
            /\ rot_gen' = GenNext(rot_gen)
       ELSE UNCHANGED <<rot_dict, rot_gen>>
    /\ run' = [run EXCEPT !.chnidx = 0]
    /\ pc' = "det"
    /\ UNCHANGED <<fsamp, nsamp, ndet, hwp_dict, hwp_gen, chunks, maps,
                   q_bore, last, scans>>

\* one turn of the detector loop (lines 540-554): scan, then bin_tod and
\* the addition to the global maps when mapmaking is set
ScanDetector ==
    /\ pc = "det"
    /\ LET sub == run.subchunks[run.sidx]
           tod == <<run.cidx, run.sidx, run.chnidx>>
           r == Scan(rot_dict, hwp_dict, hwp_gen, chunks, Len(q_bore),
                     fsamp, sub.start, sub.end)
           binned == BinTod(maps, tod, TRUE)
       IN  IF r.error # ""
           THEN /\ pc' = "error"
                /\ run' = [run EXCEPT !.error = r.error]
                /\ UNCHANGED <<hwp_dict, hwp_gen, maps, last, scans>>
           ELSE /\ hwp_dict' = r.hwp
                /\ hwp_gen' = r.gen
                /\ last' = [tod |-> tod, hwp_ang |-> r.hwp_ang,
                            qidx_start |-> r.qidx_start,
                            qidx_end |-> r.qidx_end]
                /\ scans' = Append(scans,
                       [cidx |-> run.cidx, sidx |-> run.sidx,
                        chnidx |-> run.chnidx,
                        start |-> sub.start, end |-> sub.end,
                        rot_angle |-> r.rot_angle,
                        rot_pos |-> rot_gen.pos,
                        hwp_in |-> hwp_dict, gen_in |-> hwp_gen.pos,
                        hwp_out |-> r.hwp, gen_out |-> r.gen.pos,
                        hwp_ang |-> r.hwp_ang,
                        qidx_start |-> r.qidx_start,
                        qidx_end |-> r.qidx_end,
                        q_len |-> Len(q_bore)])
                /\ maps' = IF run.mapmaking
                           THEN [binned EXCEPT
                                   !.vec = maps.vec (+) binned.depo]
                           ELSE maps
                /\ IF run.chnidx + 1 < ndet
                   THEN /\ run' = [run EXCEPT !.chnidx = run.chnidx + 1]
                        /\ pc' = "det"
                   ELSE IF run.sidx < Len(run.subchunks)
                   THEN /\ run' = [run EXCEPT !.sidx = run.sidx + 1]
                        /\ pc' = "subchunk"
                   ELSE IF run.cidx < Len(chunks)
                   THEN /\ run' = [run EXCEPT !.cidx = run.cidx + 1]
                        /\ pc' = "chunk"
                   ELSE /\ run' = run
                        /\ pc' = "done"
    /\ UNCHANGED <<fsamp, nsamp, ndet, rot_dict, rot_gen, chunks, q_bore>>

Next ==
    \/ SetFocalPlane
    \/ SetInstrRot
    \/ SetHwpMod
    \/ DoPartitionMission
    \/ AllocateMaps
    \/ ScanInstrument
    \/ NextChunk
    \/ NextSubchunk
    \/ ScanDetector

Spec == Init /\ [][Next]_vars

\* construction and the set-up calls alone
SetupNext ==
    \/ SetFocalPlane
    \/ SetInstrRot
    \/ SetHwpMod
    \/ DoPartitionMission
    \/ AllocateMaps

SpecSetup == Init /\ [][SetupNext]_vars

\* the loops of scan_instrument
RunNext ==
    \/ NextChunk
    \/ NextSubchunk
    \/ ScanDetector

\* the states in which scan_instrument enters its chunk loop with a
\* continuously rotating HWP (set_hwp_mod(mode='continuous', freq > 0)),
\* any rotation period, any partition and any number of detectors
InitContinuous ==
    /\ pc = "chunk"
    /\ fsamp \in 1..MaxFsamp
    /\ \E duration \in 1..MaxDuration : nsamp = duration * fsamp
    /\ ndet \in 1..MaxDet
    /\ \E period \in 0..MaxPeriod :
          rot_dict = [period |-> period, angle |-> 0, remainder |-> 0]
    /\ rot_gen = AngleGen(DefaultAngles(0, RotNAngles))
    /\ \E freq \in 1..MaxFreq, start_ang \in 0..MaxStartAng :
          /\ hwp_dict = [mode |-> "continuous", freq |-> freq,
                         angle |-> start_ang * HwpScale(freq, fsamp),
                         remainder |-> 0]
          /\ hwp_gen = AngleGen(DefaultAngles(start_ang, HwpNAngles))
    /\ \E chunksize \in 1..MaxChunk :
          chunks = PartitionMission(nsamp, chunksize)
    /\ maps = [alloc |-> TRUE, vec |-> EmptyBag, depo |-> EmptyBag,
               resets |-> 0]
    /\ run = [NoRun EXCEPT !.mapmaking = TRUE, !.az_throw = 1,
                           !.scan_speed = 1, !.cidx = 1]
    /\ q_bore = << >>
    /\ last = NoScan
    /\ scans = << >>

SpecContinuous == InitContinuous /\ [][RunNext]_vars

\* the angle list set_instr_rot cycles through (lines 362-364): the angles
\* argument, or 45-degree steps from start_ang when it is None (here << >>)
RotAngles(start_ang, angles) ==
    IF angles = << >> THEN DefaultAngles(start_ang, RotNAngles) ELSE angles

RotAngleLists == {<< >>, <<1, 3, 6>>}

\* the states in which scan_instrument(mapmaking=True) enters its chunk
\* loop with the HWP left unset (set_hwp_mod()), after allocate_maps, for
\* any rotation period, start angle and angle list, any partition and any
\* number of detectors
InitScanLoop ==
    /\ pc = "chunk"
    /\ fsamp \in 1..MaxFsamp
    /\ \E duration \in 1..MaxDuration : nsamp = duration * fsamp
    /\ ndet \in 1..MaxDet
    /\ \E period \in 0..MaxPeriod, start_ang \in 0..MaxStartAng,
          angles \in RotAngleLists :
          /\ rot_dict = [period |-> period, angle |-> start_ang,
                         remainder |-> 0]
          /\ rot_gen = AngleGen(RotAngles(start_ang, angles))
    /\ hwp_dict = [mode |-> "none", freq |-> 0, angle |-> 0, remainder |-> 0]
    /\ hwp_gen = AngleGen(DefaultAngles(0, HwpNAngles))
    /\ \E chunksize \in 1..MaxChunk :
          chunks = PartitionMission(nsamp, chunksize)
    /\ maps = [alloc |-> TRUE, vec |-> EmptyBag, depo |-> EmptyBag,
               resets |-> 0]
    /\ run = [NoRun EXCEPT !.mapmaking = TRUE, !.az_throw = 1,
                           !.scan_speed = 1, !.cidx = 1]
    /\ q_bore = << >>
    /\ last = NoScan
    /\ scans = << >>

SpecScanLoop == InitScanLoop /\ [][RunNext]_vars

(* --------------------------- construction ----------------------------- *)
Locations == {"spole", "atacama", "elsewhere"}

\* Instrument.__init__ (lines 36-50): the error it raises, if any; 0 stands
\* for a lat or lon argument left None (or given as 0); an attribute is a
\* record telling whether it was ever assigned, and its value
InstrumentInit(location, lat_arg, lon_arg) ==
    LET Attr(v) == [set |-> TRUE, val |-> v]
        Unset == [set |-> FALSE, val |-> 0]
        lat == IF lat_arg # 0 THEN Attr(lat_arg)
               ELSE IF location = "spole" THEN Attr(-90)
               ELSE IF location = "atacama" THEN Attr(-23)
               ELSE Unset
        lon == IF lon_arg # 0 THEN Attr(lon_arg)
               ELSE IF location = "spole" THEN Attr(169)
               ELSE IF location = "atacama" THEN Attr(-68)
               ELSE Unset
    IN  IF ~lat.set THEN "AttributeError"
        ELSE IF lat.val = 0 THEN "ValueError"
        ELSE IF ~lon.set THEN "AttributeError"
        ELSE IF lon.val = 0 THEN "ValueError"
        ELSE ""

\* before ScanStrategy(...) is called: no attribute holds a value yet
InitNew ==
    /\ pc = "new"
    /\ fsamp = 0
    /\ nsamp = 0
    /\ ndet = 0
    /\ rot_dict = [period |-> 0, angle |-> 0, remainder |-> 0]
    /\ rot_gen = AngleGen(DefaultAngles(0, RotNAngles))
    /\ hwp_dict = [mode |-> "none", freq |-> 0, angle |-> 0, remainder |-> 0]
    /\ hwp_gen = AngleGen(DefaultAngles(0, HwpNAngles))
    /\ chunks = << >>
    /\ maps = [alloc |-> FALSE, vec |-> EmptyBag, depo |-> EmptyBag,
               resets |-> 0]
    /\ run = NoRun
    /\ q_bore = << >>
    /\ last = NoScan
    /\ scans = << >>

\* ScanStrategy.__init__ (lines 232-273) for any duration and sample rate,
\* zero and negative ones included, and any location arguments; the qpoint
\* version is taken to be recent enough
Construct ==
    /\ pc = "new"
    /\ \E duration \in -1..MaxDuration, sample_rate \in -1..MaxFsamp,
          location \in Locations, lat \in {0, -23}, lon \in {0, -68} :
          LET e == InstrumentInit(location, lat, lon)
          IN  IF e # ""
              THEN /\ pc' = "error"
                   /\ run' = [run EXCEPT !.error = e]
                   /\ UNCHANGED <<fsamp, nsamp>>
              ELSE /\ pc' = "focal"
                   /\ fsamp' = sample_rate
                   /\ nsamp' = duration * sample_rate
                   /\ run' = run
    /\ UNCHANGED <<ndet, rot_dict, rot_gen, hwp_dict, hwp_gen, chunks, maps,
                   q_bore, last, scans>>

ConstructNext ==
    \/ Construct
    \/ SetFocalPlane
    \/ SetInstrRot
    \/ SetHwpMod

SpecConstruct == InitNew /\ [][ConstructNext]_vars

(* ------------------------------ claims -------------------------------- *)
RotChunkSize == rot_dict.period * fsamp

\* subs is a gapless, overlap-free cover of chunk c, in order
Partitions(subs, c) ==
    /\ Len(subs) >= 1
    /\ subs[1].start = c.start
    /\ subs[Len(subs)].end = c.end
    /\ \A i \in 1..Len(subs) : subs[i].start <= subs[i].end
    /\ \A i \in 2..Len(subs) : subs[i].start = subs[i - 1].end + 1

\* C1: for every nsamp >= 1 and chunksize >= 1 the chunk list of
\* partition_mission starts at 0, ends at nsamp - 1, has start <= end in
\* every chunk and each chunk starting right after the previous one, so
\* that every sample index of [0, nsamp) lies in exactly one chunk.
C1_PartitionCoversMission ==
    chunks # << >> =>
        /\ Partitions(chunks, [start |-> 0, end |-> nsamp - 1])
        /\ \A s \in 0..(nsamp - 1) :
              Cardinality({i \in 1..Len(chunks) :
                             chunks[i].start <= s /\ s <= chunks[i].end}) = 1

\* a mission of several chunks whose last chunk is shorter than the others
C1_Witness ==
    /\ Len(chunks) >= 3
    /\ ChunkLen(chunks[Len(chunks)]) < ChunkLen(chunks[1])

\* C2: with a rotation period set and period*fsamp <= the length of every
\* chunk, the sub-chunks subpart_chunk returns for a chunk partition it:
\* first start = chunk start, last end = chunk end, each sub-chunk starting
\* right after the previous one.
C2_SubchunksPartitionChunk ==
    ( /\ pc \in {"subchunk", "det"}
      /\ rot_dict.period # 0
      /\ \A i \in 1..Len(chunks) : RotChunkSize <= ChunkLen(chunks[i]) )
    => Partitions(run.subchunks, chunks[run.cidx])

\* C3: with a rotation period set, the carried remainder always satisfies
\* 0 <= remainder < period*fsamp.
C3_RemainderInRange ==
    rot_dict.period # 0 =>
        (0 <= rot_dict.remainder /\ rot_dict.remainder < RotChunkSize)

\* the scan calls (sub-chunk and angle) of the whole mission processed as
\* one single chunk, from the rotation state set_instr_rot leaves
SingleChunkSubs ==
    SubpartChunk([start |-> 0, end |-> nsamp - 1],
                 [rot_dict EXCEPT !.remainder = 0], fsamp).subchunks

SingleChunkAngle(s) ==
    LET k == CHOOSE i \in 1..Len(SingleChunkSubs) :
                 SingleChunkSubs[i].start <= s /\ s <= SingleChunkSubs[i].end
    IN  rot_gen.angles[((k - 1) % Len(rot_gen.angles)) + 1]

\* C4: with period*fsamp <= each chunk length, processing a span as two
\* consecutive chunks gives every sample the rotation angle it gets when
\* the span is processed as one single chunk.
C4_RotationAngleChunkingInvariant ==
    ( /\ Len(chunks) = 2
      /\ rot_dict.period # 0
      /\ \A i \in 1..Len(chunks) : RotChunkSize <= ChunkLen(chunks[i]) )
    => \A i \in 1..Len(scans) :
          \A s \in scans[i].start..scans[i].end :
              scans[i].rot_angle = SingleChunkAngle(s)

\* the samples handed to the scan calls before call i
RECURSIVE SamplesBefore(_)
SamplesBefore(i) ==
    IF i <= 1 THEN 0
    ELSE SamplesBefore(i - 1) + Len(scans[i - 1].hwp_ang)

\* C5: one detector, continuous HWP: two consecutive scan calls give every
\* sample the HWP angle (mod 360 degrees) that one scan call over the
\* same samples gives.
C5_ContinuousHwpSplitInvariant ==
    ( /\ ndet = 1
      /\ Len(scans) >= 2
      /\ scans[1].hwp_in.mode = "continuous"
      /\ scans[1].hwp_in.freq # 0 )
    => LET turn == HwpTurn(scans[1].hwp_in.freq, fsamp)
           n == Len(scans[1].hwp_ang) + Len(scans[2].hwp_ang)
           one == HwpContinuous(scans[1].hwp_in, hwp_gen, n, fsamp).hwp_ang
       IN  \A i \in 1..2 :
              \A k \in 1..Len(scans[i].hwp_ang) :
                  scans[i].hwp_ang[k] % turn
                      = one[SamplesBefore(i) + k] % turn

\* C6: one detector, stepped HWP: over the concatenation of the scan calls
\* the HWP angle is constant over blocks of step_size = fsamp/freq samples,
\* block b (from 0) has entry b of the cyclic angle list, and the calls
\* have consumed exactly one entry per block started.
C6_SteppedHwpBlocks ==
    ( /\ ndet = 1
      /\ Len(scans) >= 1
      /\ scans[1].hwp_in.mode = "stepped"
      /\ scans[1].hwp_in.freq # 0 )
    => LET freq == scans[1].hwp_in.freq
           step_size == fsamp \div freq
           angles == hwp_gen.angles
           Entry(b) == angles[(b % Len(angles)) + 1] * HwpScale(freq, fsamp)
           total == SamplesBefore(Len(scans) + 1)
       IN  /\ \A i \in 1..Len(scans) :
                 \A k \in 1..Len(scans[i].hwp_ang) :
                     scans[i].hwp_ang[k]
                         = Entry((SamplesBefore(i) + k - 1) \div step_size)
           /\ hwp_gen.pos = (CeilDiv(total, step_size) % Len(angles)) + 1

\* C7: within a sub-chunk every detector's scan call sees the HWP state
\* and the rotation state the first detector's call saw.
C7_NoInterDetectorState ==
    \A i \in 2..Len(scans) :
        scans[i].chnidx > 0 =>
            /\ scans[i].hwp_in = scans[i - 1].hwp_in
            /\ scans[i].gen_in = scans[i - 1].gen_in
            /\ scans[i].rot_angle = scans[i - 1].rot_angle

\* C8: continuous HWP: the angle a scan call leaves in hwp_dict['angle'] is
\* the HWP angle of the call's final sample (mod 360 degrees), and the
\* next scan call gives its first sample exactly that stored angle.
C8_ContinuousStoredAngle ==
    \A i \in 1..Len(scans) :
        (scans[i].hwp_in.mode = "continuous" /\ scans[i].hwp_in.freq # 0) =>
            /\ scans[i].hwp_out.angle
                  = scans[i].hwp_ang[Len(scans[i].hwp_ang)]
                        % HwpTurn(scans[i].hwp_in.freq, fsamp)
            /\ i > 1 => scans[i].hwp_ang[1] = scans[i - 1].hwp_out.angle
            /\ i = Len(scans) => hwp_dict.angle = scans[i].hwp_out.angle

\* two scan calls of two samples or more on either side of a chunk
\* boundary, the angle advancing by a fraction of a turn per sample
C8_Witness ==
    /\ Len(scans) >= 2
    /\ scans[2].hwp_in.mode = "continuous"
    /\ scans[2].hwp_in.freq * fsamp > 1
    /\ scans[1].cidx = 1
    /\ scans[2].cidx = 2
    /\ Len(scans[1].hwp_ang) >= 2
    /\ Len(scans[2].hwp_ang) >= 2
    /\ scans[2].hwp_ang[1] # scans[1].hwp_ang[1]

\* C9: constant_el_scan with scan_speed = 0 raises no division-by-zero
\* error and gives every sample of the chunk the azimuth az0.
C9_ZeroScanSpeedHoldsAz ==
    (run.cidx >= 1 /\ run.scan_speed = 0 /\ pc # "chunk") =>
        /\ run.error # "ZeroDivisionError"
        /\ Len(q_bore) = ChunkLen(chunks[run.cidx])
        /\ \A k \in 1..Len(q_bore) : q_bore[k] = 0

\* C10: with mapmaking enabled the destination buffers of the binning
\* primitive are zeroed once, at mission start: no later bin_tod call
\* resets them.
C10_DestZeroedOnce ==
    maps.resets <= 1

\* the (chunk, sub-chunk, detector) triples scanned so far
Triples == {<<scans[i].cidx, scans[i].sidx, scans[i].chnidx>> :
               i \in 1..Len(scans)}

\* C11: after allocate_maps and with mapmaking enabled, the global buffers
\* hold the sum of the increments of the (chunk, sub-chunk, detector)
\* triples processed, each binned alone: every triple exactly once, none
\* lost, none twice, vec and proj never zeroed again.
C11_GlobalMapsSumEachTripleOnce ==
    (run.mapmaking /\ maps.alloc) =>
        /\ BagToSet(maps.vec) = Triples
        /\ \A t \in Triples : CopiesIn(t, maps.vec) = 1
        /\ Cardinality(Triples) = Len(scans)
        /\ Len(scans) >= 1 => maps.depo = SetToBag({last.tod})

\* two detectors binned over two chunks
C11_Witness ==
    /\ run.mapmaking
    /\ ndet = 2
    /\ Len(scans) >= 4
    /\ scans[Len(scans)].cidx = 2
    /\ BagCardinality(maps.vec) >= 4

\* C12: when the rotation period is unset or period*fsamp exceeds the
\* chunk length, subpart_chunk returns exactly [chunk] and leaves the
\* rotation state (period, angle, remainder) as it was.
C12_DegenerateChunkUnchanged ==
    [][ ( /\ pc = "chunk"
          /\ pc' = "subchunk"
          /\ \/ rot_dict.period = 0
             \/ RotChunkSize > ChunkLen(chunks[run.cidx]) )
        => ( /\ run'.subchunks = <<chunks[run.cidx]>>
             /\ rot_dict' = rot_dict ) ]_vars

\* subpart_chunk has just returned for a final chunk shorter than the
\* rotation piece, with a remainder carried from the chunks before it, and
\* for a chunk scanned with the period unset
C12_Witness ==
    /\ pc = "subchunk"
    /\ run.sidx = 1
    /\ run.cidx >= 2
    /\ rot_dict.period # 0
    /\ RotChunkSize > ChunkLen(chunks[run.cidx])
    /\ rot_dict.remainder # 0
    /\ run.subchunks = <<chunks[run.cidx]>>

\* C13: construction fails for a non-positive duration, a non-positive
\* sample rate or a missing location: no constructed ScanStrategy has
\* fsamp <= 0 or nsamp <= 0.
C13_ConstructionRejectsInvalid ==
    pc \notin {"new", "error"} => (fsamp > 0 /\ nsamp > 0)

\* C14: with the HWP mode none, every scan call completes (no scan raises),
\* uses an HWP angle of zero for every sample, and leaves the HWP angle,
\* remainder and angle-list position unchanged, whatever freq is configured.
C14_NoneModeZeroAngle ==
    hwp_dict.mode = "none" =>
        /\ run.error # "UnboundLocalError"
        /\ \A i \in 1..Len(scans) :
              /\ \A j \in 1..Len(scans[i].hwp_ang) : scans[i].hwp_ang[j] = 0
              /\ Len(scans[i].hwp_ang) = scans[i].end - scans[i].start + 1
              /\ scans[i].hwp_out = scans[i].hwp_in
              /\ scans[i].gen_out = scans[i].gen_in

\* C15: every scan call selects the boresight slice with
\* qidx_start = subchunk.start - chunk.start and
\* qidx_end = subchunk.end - chunk.start, and
\* 0 <= qidx_start <= qidx_end <= len(q_bore) - 1, for a shorter last chunk,
\* an equal last chunk and a single chunk alike, so the slice has the
\* sub-chunk's length.
C15_BoresightSliceMatchesSubchunk ==
    \A i \in 1..Len(scans) :
        LET s == scans[i]
            chunk == chunks[s.cidx]
        IN  /\ s.qidx_start = s.start - chunk.start
            /\ s.qidx_end = s.end - chunk.start
            /\ 0 <= s.qidx_start
            /\ s.qidx_start <= s.qidx_end
            /\ s.qidx_end <= s.q_len - 1


C15_Witness ==
    \E i \in 1..Len(scans) :
        /\ Len(chunks) >= 2
        /\ scans[i].cidx = Len(chunks)
        /\ scans[i].q_len < ChunkLen(chunks[1])
        /\ scans[i].sidx >= 2
        /\ scans[i].qidx_start > 0
        /\ scans[i].qidx_end = scans[i].q_len - 1


\* the ordinal, within the mission, of the sub-chunk that scan i belongs to
SubchunkOrdinal(i) ==
    Cardinality({<<scans[j].cidx, scans[j].sidx>> : j \in 1..i})

\* C16: with a rotation period set the rotation angle advances exactly once
\* per sub-chunk, before the detector loop, to the next entry of the cyclic
\* angle list: the k-th sub-chunk of the mission is scanned with the k-th
\* entry (modulo the list length) by every detector; when period*fsamp
\* exceeds the chunk length that is once per chunk; with the period unset
\* the angle stays at the start angle for the whole mission.
C16_RotationOncePerSubchunk ==
    /\ [](\A i \in 1..Len(scans) :
            LET s == scans[i]
                n == Len(rot_gen.angles)
            IN  /\ rot_dict.period # 0 =>
                      s.rot_angle =
                          rot_gen.angles[((SubchunkOrdinal(i) - 1) % n) + 1]
                /\ \A j \in 1..Len(scans) :
                      (scans[j].cidx = s.cidx /\ scans[j].sidx = s.sidx)
                          => scans[j].rot_angle = s.rot_angle
                /\ ( /\ rot_dict.period # 0
                     /\ RotChunkSize > ChunkLen(chunks[s.cidx]) )
                       => s.sidx = 1)
    /\ [][ /\ rot_dict.period = 0 =>
                (rot_dict'.angle = rot_dict.angle /\ rot_gen' = rot_gen)
           /\ rot_dict.period # 0 =>
                IF pc = "subchunk" /\ pc' = "det"
                THEN /\ rot_dict'.angle = GenValue(rot_gen)
                     /\ rot_gen' = GenNext(rot_gen)
                ELSE /\ rot_dict'.angle = rot_dict.angle
                     /\ rot_gen' = rot_gen ]_vars

C16_Witness ==
    \E i \in 1..Len(scans) :
        /\ rot_dict.period # 0
        /\ rot_gen.angles = <<1, 3, 6>>
        /\ SubchunkOrdinal(i) = 4
        /\ scans[i].cidx >= 2
        /\ scans[i].sidx >= 2
        /\ scans[i].chnidx = 1
        /\ scans[i].rot_angle = 1

=============================================================================
